---- MODULE Spec2Model ----
(***************************************************************************)
(* Video Link extension (src/index.js).  The file holds two revisions of   *)
(* the extension one after the other:                                      *)
(*   revision "A"  lines   1-482  (persists links in chat metadata,        *)
(*                                 restores them, expects `filename`)      *)
(*   revision "B"  lines 483-821  (no persistence, expects url/link/raw)   *)
(* The variable rev says which of the two is the one loaded by the host.   *)
(* The browser runs every handler to completion on one thread; the only    *)
(* suspension point is the awaited fetch inside the click handler, so one  *)
(* action is one handler run, one continuation run or one timer callback.  *)
(***************************************************************************)
EXTENDS Integers, Sequences, FiniteSets, TLC

VARIABLES
    rev,        \* "A" or "B": the revision of index.js that is loaded
    ctx,        \* what SillyTavern.getContext() exposes (which functions exist,
                \* whether the save-chat call rejects)
    settings,   \* the extension's settings object (shared with the host bag)
    chat,       \* the host's in-memory chat list: per index, extra.video_link
    dom,        \* per message index: the .mes node under #chat
    inflight,   \* click handlers suspended at `await fetchLinkFromAPI(...)`
    scans,      \* pending callbacks of the host event listeners, in creation order
    requests,   \* the number of requests sent to the API so far
    last,       \* what the last step called and, for a resumed click, was answered
    host        \* the extension's entry in the host's extensionSettings bag

vars == <<rev, ctx, settings, chat, dom, inflight, scans, requests, last, host>>

----------------------------------------------------------------------------
\* Bounds of the model.
NMsg == 2          \* chat messages 0 .. NMsg-1
MaxContainers == 2 \* button containers inserted into one message
MaxInflight == 2   \* click handlers suspended on a fetch at the same time
MaxTimers == 2     \* pending button timers plus those reserved by suspended clicks
MaxScans == 1      \* pending callbacks scheduled by the host event listeners
MaxRequests == 2   \* requests sent to the API in one run
MaxEdits == 1      \* edits of the Button Text field in one run

Msgs == 0 .. (NMsg - 1)

----------------------------------------------------------------------------
\* Button labels.  "chain" is the default text; every edit of the Button
\* Text field enters a text that was not used before.  The other three
\* labels are the glyphs the click handler writes.
DefaultButtonText == "chain"
EditedText(n) == IF n = 0 THEN DefaultButtonText ELSE IF n = 1 THEN "play" ELSE IF n = 2 THEN "film" ELSE "disc"
Labels == {EditedText(n) : n \in 0 .. MaxEdits}
NextEdit(text) == {EditedText(n + 1) : n \in {i \in 0 .. (MaxEdits - 1) : EditedText(i) = text}}
Busy == "hourglass"
Check == "check"
Cross == "cross"

\* Timer delays in milliseconds.
DelayRendered == 100
DelayChatChangedA == 300
DelayChatChangedB == 200
DelayAppReadyA == 800
DelayAppReadyB == 500
DelayResetSuccessA == 1500
DelayHideB == 1000
DelayResetError == 2000

----------------------------------------------------------------------------
\* Settings objects.  An object is the set of keys it has and their values
\* (val of a key it lacks is never read; it is kept at the default so that
\* an object has one representation).  After init() the module's
\* variable settings and the host's entry are one object; in Spec and
\* SpecCalls the variable settings holds the two fields the handlers read.
SettingsKeys == {"enabled", "apiEndpoint", "buttonText", "buttonPosition"}

defaultSettings ==
    [k \in SettingsKeys |->
        CASE k = "enabled" -> TRUE
          [] k = "apiEndpoint" -> "https://api.example.com/get-link"
          [] k = "buttonText" -> DefaultButtonText
          [] k = "buttonPosition" -> "bottom"]

\* A value of a key other than the default, as saved by an earlier session.
customSettings ==
    [k \in SettingsKeys |->
        CASE k = "enabled" -> FALSE
          [] k = "apiEndpoint" -> "https://custom"
          [] k = "buttonText" -> "play"
          [] k = "buttonPosition" -> "top"]

SettingsObject(has, val) ==
    [has |-> has,
     val |-> [k \in SettingsKeys |-> IF k \in has THEN val[k] ELSE defaultSettings[k]]]

\* let settings = {}
EmptyObject == SettingsObject({}, defaultSettings)

\* extensionSettings[MODULE_NAME]: undefined, null, an object of its own,
\* or the very object the module's variable settings refers to.
NoEntry == [kind |-> "none", obj |-> EmptyObject]
NullEntry == [kind |-> "null", obj |-> EmptyObject]
OwnEntry(o) == [kind |-> "object", obj |-> o]
SameEntry == [kind |-> "same", obj |-> EmptyObject]

\* The object the host finds at its entry.
EntryObject(h, st) == IF h.entry.kind = "same" THEN st ELSE h.entry.obj

\* A variant of loadSettings that keeps a copy of the entry in settings.
loadSettingsCopying(h, st) ==
    LET e1 == IF h.entry.kind \in {"none", "null"}
              THEN SettingsObject(SettingsKeys, defaultSettings)
              ELSE EntryObject(h, st)
        e2 == SettingsObject(SettingsKeys,
                  [k \in SettingsKeys |-> IF k \in e1.has THEN e1.val[k] ELSE defaultSettings[k]])
    IN [host |-> [h EXCEPT !.entry = OwnEntry(e2)], settings |-> e2]

\* loadSettings, on the host's bag h and the module's settings object st;
\* the result is the bag and the object settings refers to afterwards.
loadSettings(h, st) ==
    LET \* if (!extensionSettings[MODULE_NAME]) ... = structuredClone(defaultSettings)
        e1 == IF h.entry.kind \in {"none", "null"}
              THEN SettingsObject(SettingsKeys, defaultSettings)
              ELSE EntryObject(h, st)
        \* for (const key of Object.keys(defaultSettings)) if (!Object.hasOwn(...)) ...
        e2 == SettingsObject(SettingsKeys,
                  [k \in SettingsKeys |-> IF k \in e1.has THEN e1.val[k] ELSE defaultSettings[k]])
    IN \* settings = extensionSettings[MODULE_NAME]
       [host |-> [h EXCEPT !.entry = SameEntry], settings |-> e2]

----------------------------------------------------------------------------
\* JavaScript values that reach the extension from response.json().
\* A value is undefined, null, a string, or an object with the (optional)
\* properties url, link, filename; an absent property is an undefined value.
Undef == [t |-> "undef", s |-> "", url |-> "", link |-> "", filename |-> ""]
Null == [t |-> "null", s |-> "", url |-> "", link |-> "", filename |-> ""]
Str(x) == [t |-> "str", s |-> x, url |-> "", link |-> "", filename |-> ""]
Absent == "<absent>"
Obj(u, l, f) == [t |-> "obj", s |-> "", url |-> u, link |-> l, filename |-> f]

\* data.name for name in url, link, filename (data is not null/undefined)
GetProp(data, name) ==
    IF data.t # "obj" THEN Undef
    ELSE LET v == IF name = "url" THEN data.url
                  ELSE IF name = "link" THEN data.link
                  ELSE data.filename
         IN IF v = Absent THEN Undef ELSE Str(v)

\* JavaScript truthiness, as used by `||`
Truthy(v) == v.t = "obj" \/ (v.t = "str" /\ v.s # "")

\* String(v), as performed by `link.href = url` and by template literals
ToStr(v) ==
    IF v.t = "str" THEN v.s
    ELSE IF v.t = "obj" THEN "[object Object]"
    ELSE IF v.t = "null" THEN "null"
    ELSE "undefined"

\* What one fetch can end in: the call throws, a non-2xx status, a 2xx
\* status whose body is not JSON, or a 2xx status with a JSON body.
NetworkError == [kind |-> "network", body |-> Undef]
HttpError == [kind |-> "status", body |-> Undef]
BadJson == [kind |-> "badjson", body |-> Undef]
JsonOk(b) == [kind |-> "json", body |-> b]

\* The answers of the API while the extension runs.
Responses == {NetworkError, HttpError, JsonOk(Obj("https://a", Absent, "f1"))}

\* A result of an awaited call: it threw, or it returned value.
Threw == [threw |-> TRUE, value |-> Undef]
Returned(v) == [threw |-> FALSE, value |-> v]

\* fetchLinkFromAPI: the value the returned promise settles with.
fetchLinkFromAPI(r, resp) ==
    IF resp.kind # "json" THEN Threw
    ELSE IF resp.body.t \in {"null", "undef"} THEN Threw   \* TypeError on property read
    ELSE IF r = "A" THEN Returned(GetProp(resp.body, "filename"))
    ELSE LET u == GetProp(resp.body, "url")
             l == GetProp(resp.body, "link")
         IN Returned(IF Truthy(u) THEN u ELSE IF Truthy(l) THEN l ELSE resp.body)

----------------------------------------------------------------------------
\* Text of a message: a sequence of tokens; " " and "\n" are white space.
IsSpace(tok) == tok \in {" ", "\n"}

RECURSIVE TrimLeft(_)
TrimLeft(t) == IF t # <<>> /\ IsSpace(Head(t)) THEN TrimLeft(Tail(t)) ELSE t

RECURSIVE TrimRight(_)
TrimRight(t) ==
    IF t # <<>> /\ IsSpace(t[Len(t)]) THEN TrimRight(SubSeq(t, 1, Len(t) - 1)) ELSE t

\* String.prototype.trim
Trim(t) == TrimRight(TrimLeft(t))

\* The host's own texts of the messages (one blank, one not).
MsgTexts == { <<" ">>, <<"hi", " ">> }

\* Links persisted by an earlier session.
PersistedUrls == {"https://p"}

\* The mesid attribute of a node: absent, not a number, or an integer.
MesId(n) == [kind |-> "int", n |-> n]
NoMesId == [kind |-> "absent", n |-> 0]
NaNMesId == [kind |-> "nan", n |-> 0]

\* A .mes node of the #chat list.  The link containers are children of the
\* text container, links lists their hrefs in document order; containers
\* counts the .video-link-button-container children, buttons lists the
\* .video-link-button elements inside them in document order.
NoNode ==
    [exists |-> FALSE, hasText |-> FALSE, mesid |-> NoMesId, text |-> <<>>,
     links |-> <<>>, containers |-> 0, buttons |-> <<>>]
Node(m, t) ==
    [exists |-> TRUE, hasText |-> TRUE, mesid |-> MesId(m), text |-> t,
     links |-> <<>>, containers |-> 0, buttons |-> <<>>]

RECURSIVE LinkTexts(_, _)
LinkTexts(links, sep) ==
    IF links = <<>> THEN <<>> ELSE sep \o <<Head(links)>> \o LinkTexts(Tail(links), sep)

\* mesText.innerText: the rendered text; every link container is a block.
InnerText(node) == node.text \o LinkTexts(node.links, <<"\n">>)
\* mesText.textContent: the concatenated text nodes.
TextContent(node) == node.text \o LinkTexts(node.links, <<>>)

\* A button element with its pending timers (the setTimeout callbacks whose
\* closure holds it, in creation order).  outcome remembers how the awaited
\* fetchLinkFromAPI of the last resumed click on it settled: "resolved" or
\* "rejected".
NewButton(text) ==
    [disabled |-> FALSE, text |-> text, success |-> FALSE, error |-> FALSE,
     hidden |-> FALSE, outcome |-> "none", timers |-> <<>>]

\* The heap the handlers work on, as one value; saves collects the calls of
\* the host's save-chat functions made by the running handler, threw says
\* that the handler ended with an exception nobody caught, loaded is the
\* loadedCount of loadSavedVideoLinks.
World ==
    [settings |-> settings, chat |-> chat, dom |-> dom,
     inflight |-> inflight, scans |-> scans, requests |-> requests, saves |-> <<>>,
     resp |-> [kind |-> "none", body |-> Undef], msg |-> -1, slot |-> 0,
     threw |-> FALSE, loaded |-> 0]

----------------------------------------------------------------------------
\* A variant of saveVideoLinkToMessage (defined below) that calls the save function without
\* having written message.extra.video_link.
saveVideoLinkToMessageUnset(w, m, url) ==
    LET mesId == w.dom[m].mesid
        messageIndex == mesId.n
    IN IF mesId.kind = "absent" THEN w
       ELSE IF mesId.kind = "nan" \/ messageIndex < 0 \/ messageIndex >= NMsg THEN w
       ELSE IF ctx.saveChat THEN [w EXCEPT !.saves = Append(@, "saveChat")]
       ELSE IF ctx.saveChatConditional
            THEN [w EXCEPT !.saves = Append(@, "saveChatConditional")]
       ELSE w

\* A variant of saveVideoLinkToMessage without the range check of the index
\* (an index outside the list names no message).
saveVideoLinkToMessageUnchecked(w, m, url) ==
    LET mesId == w.dom[m].mesid
        messageIndex == mesId.n
    IN IF mesId.kind = "absent" THEN w
       ELSE LET w1 == IF mesId.kind = "int" /\ messageIndex \in Msgs
                      THEN [w EXCEPT !.chat[messageIndex] =
                                         [extra |-> TRUE, video_link |-> url]]
                      ELSE w
            IN IF ctx.saveChat THEN [w1 EXCEPT !.saves = Append(@, "saveChat")]
               ELSE IF ctx.saveChatConditional
                    THEN [w1 EXCEPT !.saves = Append(@, "saveChatConditional")]
               ELSE w1

\* A variant of saveVideoLinkToMessage that calls every save function the
\* host exposes.
saveVideoLinkToMessageBoth(w, m, url) ==
    LET mesId == w.dom[m].mesid
        messageIndex == mesId.n
    IN IF mesId.kind = "absent" THEN w
       ELSE IF mesId.kind = "nan" \/ messageIndex < 0 \/ messageIndex >= NMsg THEN w
       ELSE LET w1 == [w EXCEPT !.chat[messageIndex] = [extra |-> TRUE, video_link |-> url]]
                w2 == IF ctx.saveChat THEN [w1 EXCEPT !.saves = Append(@, "saveChat")] ELSE w1
            IN IF ctx.saveChatConditional
               THEN [w2 EXCEPT !.saves = Append(@, "saveChatConditional")]
               ELSE w2

\* saveVideoLinkToMessage (revision A): runs synchronously up to its first
\* await, that is up to and including the call of the save function.
saveVideoLinkToMessage(w, m, url) ==
    LET mesId == w.dom[m].mesid
        messageIndex == mesId.n
    IN IF mesId.kind = "absent" THEN w
       ELSE IF mesId.kind = "nan" \/ messageIndex < 0 \/ messageIndex >= NMsg THEN w
       ELSE LET w1 == [w EXCEPT !.chat[messageIndex] = [extra |-> TRUE, video_link |-> url]]
                w2 == IF ctx.saveChat THEN [w1 EXCEPT !.saves = Append(@, "saveChat")]
                      ELSE IF ctx.saveChatConditional
                           THEN [w1 EXCEPT !.saves = Append(@, "saveChatConditional")]
                      ELSE w1
            IN \* a rejected save is caught by the function's own catch block,
               \* which only logs; so does the path of a save that succeeded
               IF w2.saves # w1.saves /\ ctx.saveRejects THEN w2 ELSE w2

\* A variant of addLinkToMessage (revision A) that persists first and shows
\* the link only when a save function was called.
addLinkToMessageAStrict(w, m, url, saveToChat) ==
    IF ~w.dom[m].hasText THEN w
    ELSE IF w.dom[m].links # <<>> THEN w
    ELSE IF saveToChat
         THEN LET w1 == saveVideoLinkToMessage(w, m, url)
              IN IF w1.saves = <<>> THEN w1
                 ELSE [w1 EXCEPT !.dom[m].links = Append(@, url)]
         ELSE [w EXCEPT !.dom[m].links = Append(@, url)]

\* addLinkToMessage, revision A
addLinkToMessageA(w, m, url, saveToChat) ==
    IF ~w.dom[m].hasText THEN w
    ELSE IF w.dom[m].links # <<>> THEN w
    ELSE LET w1 == [w EXCEPT !.dom[m].links = Append(@, url)]
         IN IF saveToChat THEN saveVideoLinkToMessage(w1, m, url) ELSE w1

\* addLinkToMessage, revision B
addLinkToMessageB(w, m, url) ==
    IF ~w.dom[m].hasText THEN w
    ELSE [w EXCEPT !.dom[m].links = Append(@, url)]

\* document.querySelector(`#chat .mes[mesid="${index}"]`): the nodes the
\* selector matches (querySelector returns the first in document order).
querySelectorMes(w, index) ==
    {m \in Msgs : w.dom[m].exists /\ w.dom[m].mesid = MesId(index)}

\* A variant of the forEach callback of loadSavedVideoLinks that restores
\* with saveToChat = true.
loadSavedVideoLinkPersisting(w, index) ==
    LET message == w.chat[index]
        found == querySelectorMes(w, index)
    IN IF message.extra /\ message.video_link \notin {Absent, ""}
       THEN IF found # {}
            THEN LET messageElement == CHOOSE m \in found : \A n \in found : m <= n
                 IN IF w.dom[messageElement].links = <<>>
                    THEN [addLinkToMessageA(w, messageElement, message.video_link, TRUE)
                             EXCEPT !.loaded = @ + 1]
                    ELSE w
            ELSE w
       ELSE w

\* the body of the forEach callback of loadSavedVideoLinks, for one index
loadSavedVideoLink(w, index) ==
    LET message == w.chat[index]
        found == querySelectorMes(w, index)
    IN IF message.extra /\ message.video_link \notin {Absent, ""}
       THEN IF found # {}
            THEN LET messageElement == CHOOSE m \in found : \A n \in found : m <= n
                 IN IF w.dom[messageElement].links = <<>>
                    THEN [addLinkToMessageA(w, messageElement, message.video_link, FALSE)
                             EXCEPT !.loaded = @ + 1]
                    ELSE w
            ELSE w
       ELSE w

RECURSIVE loadSavedFrom(_, _)
loadSavedFrom(w, index) ==
    IF index >= NMsg THEN w ELSE loadSavedFrom(loadSavedVideoLink(w, index), index + 1)

\* loadSavedVideoLinks (revision A)
loadSavedVideoLinks(w) == IF NMsg = 0 THEN w ELSE loadSavedFrom(w, 0)

----------------------------------------------------------------------------
\* A variant of addButtonToMessage without the check for an existing button.
addButtonToMessageUnguarded(w, m) ==
    IF ~w.dom[m].hasText THEN w
    ELSE [w EXCEPT !.dom[m].containers = @ + 1,
                   !.dom[m].buttons = Append(@, NewButton(w.settings.buttonText))]

\* addButtonToMessage (the same in both revisions).  Without a text
\* container the new container and button are never inserted.
addButtonToMessage(w, m) ==
    IF w.dom[m].buttons # <<>> THEN w
    ELSE IF ~w.dom[m].hasText THEN w
    ELSE [w EXCEPT !.dom[m].containers = @ + 1,
                   !.dom[m].buttons = Append(@, NewButton(w.settings.buttonText))]

\* document.querySelectorAll('#chat .mes').forEach(addButtonToMessage)
RECURSIVE forEachMessageAddButton(_, _)
forEachMessageAddButton(w, m) ==
    IF m >= NMsg THEN w
    ELSE forEachMessageAddButton(IF w.dom[m].exists THEN addButtonToMessage(w, m) ELSE w, m + 1)

\* addButtonsToAllMessages
addButtonsToAllMessages(w) ==
    IF ~w.settings.enabled THEN w ELSE forEachMessageAddButton(w, 0)

\* the callback handleMessageRendered schedules
renderedCallback(w) ==
    IF rev = "A" THEN forEachMessageAddButton(loadSavedVideoLinks(w), 0)
    ELSE forEachMessageAddButton(w, 0)

\* the callback the CHAT_CHANGED and APP_READY listeners schedule
rescanCallback(w) ==
    IF rev = "A" THEN addButtonsToAllMessages(loadSavedVideoLinks(w))
    ELSE addButtonsToAllMessages(w)

scanCallback(w, kind) == IF kind = "rendered" THEN renderedCallback(w) ELSE rescanCallback(w)

----------------------------------------------------------------------------
\* Timers.  A button timer is its callback (kind, with the text the closure
\* captured) and its delay; a scan is a callback of a host event listener.
Timer(kind, delay, orig) == [kind |-> kind, delay |-> delay, orig |-> orig]
Scan(kind, delay) == [kind |-> kind, delay |-> delay]

\* Of the timers in q (in creation order) the i-th can be the next to run
\* unless one created before it has a delay that is not longer.
CanFire(q, i) == \A j \in 1 .. (i - 1) : q[j].delay > q[i].delay

RemoveAt(seq, i) == SubSeq(seq, 1, i - 1) \o SubSeq(seq, i + 1, Len(seq))

\* setTimeout(callback, delay) with a callback that holds button k of m
setTimeout(w, m, k, t) == [w EXCEPT !.dom[m].buttons[k].timers = Append(@, t)]

\* The identifiers the script declares at top level or finds in the global
\* scope; reading any other free identifier throws a ReferenceError.
ScriptScope ==
    {"MODULE_NAME", "defaultSettings", "settings", "SillyTavern", "document", "fetch", "$"}

\* `${apiEndpoint}/v1/player?id=${filename}` (revision A, in handleButtonClick)
playerUrl(filename) ==
    IF "apiEndpoint" \notin ScriptScope THEN Threw
    ELSE Returned(Str(IF ToStr(filename) = "f1" THEN "/v1/player?id=f1"
                      ELSE "/v1/player?id=undefined"))

----------------------------------------------------------------------------
\* A click handler suspended at its await: the message element and the
\* button it holds (slot 0: the button has been removed from the document
\* since) and the text it captured.
Pending(m, k, originalText) == [msg |-> m, slot |-> k, originalText |-> originalText]

\* messageText of handleButtonClick, revision A:
\* (mesText.innerText || mesText.textContent || '').trim()
messageTextA(node) ==
    Trim(IF InnerText(node) # <<>> THEN InnerText(node) ELSE TextContent(node))

\* messageText of handleButtonClick, revision B:
\* mesText ? mesText.textContent.trim() : ''
messageTextB(node) == IF node.hasText THEN Trim(TextContent(node)) ELSE <<>>

\* handleButtonClick up to `await fetchLinkFromAPI(messageText)`, revision A,
\* for button k of message m.  The result is the new heap and the message
\* text of the request, or the unchanged heap and no request when the
\* handler returns early.
clickA(w, m, k) ==
    LET node == w.dom[m]
        messageText == messageTextA(node)
    IN IF ~node.hasText \/ messageText = <<>>
       THEN [w |-> w, sent |-> FALSE, message |-> <<>>]
       ELSE LET w1 == [w EXCEPT !.dom[m].buttons[k].disabled = TRUE,
                                !.dom[m].buttons[k].text = Busy]
                w2 == [w1 EXCEPT !.dom[m].links = IF @ = <<>> THEN @ ELSE Tail(@)]
                w3 == [w2 EXCEPT !.inflight = Append(@, Pending(m, k, node.buttons[k].text)),
                                 !.requests = @ + 1]
            IN [w |-> w3, sent |-> TRUE, message |-> messageText]

\* the same, revision B
clickB(w, m, k) ==
    LET node == w.dom[m]
        messageText == messageTextB(node)
        w1 == [w EXCEPT !.dom[m].buttons[k].disabled = TRUE,
                        !.dom[m].buttons[k].text = Busy]
        w2 == [w1 EXCEPT !.inflight = Append(@, Pending(m, k, "")), !.requests = @ + 1]
    IN [w |-> w2, sent |-> TRUE, message |-> messageText]

handleButtonClick(w, m, k) == IF rev = "A" THEN clickA(w, m, k) ELSE clickB(w, m, k)

\* A variant of the catch block that leaves the button disabled.
catchBlockKeepsDisabled(w, c) ==
    LET m == c.msg
        k == c.slot
    IN IF k = 0 THEN w
       ELSE setTimeout([w EXCEPT !.dom[m].buttons[k].text = Cross,
                                 !.dom[m].buttons[k].error = TRUE],
                       m, k, Timer("resetError", DelayResetError, c.originalText))

\* the catch block of handleButtonClick; what it writes to a button that
\* is no longer in the document is seen by nobody
catchBlock(w, c) ==
    LET m == c.msg
        k == c.slot
    IN IF k = 0 THEN w
       ELSE setTimeout([w EXCEPT !.dom[m].buttons[k].text = Cross,
                                 !.dom[m].buttons[k].error = TRUE,
                                 !.dom[m].buttons[k].disabled = FALSE],
                       m, k, Timer("resetError", DelayResetError, c.originalText))

\* the statements after addLinkToMessage in the try block
showSuccess(w, c, t) ==
    LET m == c.msg
        k == c.slot
    IN IF k = 0 THEN w
       ELSE setTimeout([w EXCEPT !.dom[m].buttons[k].text = Check,
                                 !.dom[m].buttons[k].success = TRUE],
                       m, k, t)

\* handleButtonClick after the await, revision A: r is what the awaited
\* fetchLinkFromAPI settled with.
resumeA(w, c, r) ==
    IF r.threw THEN catchBlock(w, c)
    ELSE LET url == playerUrl(r.value)
         IN IF url.threw THEN catchBlock(w, c)
            ELSE showSuccess(addLinkToMessageA(w, c.msg, ToStr(url.value), TRUE), c,
                             Timer("resetSuccess", DelayResetSuccessA, c.originalText))

\* the same, revision B
resumeB(w, c, r) ==
    IF r.threw THEN catchBlock(w, c)
    ELSE showSuccess(addLinkToMessageB(w, c.msg, ToStr(r.value)), c,
                     Timer("hide", DelayHideB, ""))

\* The fetch of the suspended click c ended with resp.
resume(w, c, resp) ==
    LET r == fetchLinkFromAPI(rev, resp)
        w0 == [w EXCEPT !.resp = resp, !.msg = c.msg, !.slot = c.slot]
        w1 == IF c.slot = 0 THEN w0
              ELSE [w0 EXCEPT !.dom[c.msg].buttons[c.slot].outcome =
                                  IF r.threw THEN "rejected" ELSE "resolved"]
    IN IF rev = "A" THEN resumeA(w1, c, r) ELSE resumeB(w1, c, r)

\* A variant of the timer callbacks in which the error reset enables the
\* button as the success reset does.
timerCallbackEnabling(w, m, k, t) ==
    CASE t.kind = "resetSuccess" ->
           [w EXCEPT !.dom[m].buttons[k].text = t.orig,
                     !.dom[m].buttons[k].success = FALSE,
                     !.dom[m].buttons[k].disabled = FALSE]
      [] t.kind = "hide" -> [w EXCEPT !.dom[m].buttons[k].hidden = TRUE]
      [] t.kind = "resetError" ->
           [w EXCEPT !.dom[m].buttons[k].text =
                         IF rev = "A" THEN t.orig ELSE w.settings.buttonText,
                     !.dom[m].buttons[k].error = FALSE,
                     !.dom[m].buttons[k].disabled = FALSE]

\* The callback of timer t of button k of message m.
timerCallback(w, m, k, t) ==
    CASE t.kind = "resetSuccess" ->
           [w EXCEPT !.dom[m].buttons[k].text = t.orig,
                     !.dom[m].buttons[k].success = FALSE,
                     !.dom[m].buttons[k].disabled = FALSE]
      [] t.kind = "hide" -> [w EXCEPT !.dom[m].buttons[k].hidden = TRUE]
      [] t.kind = "resetError" ->
           [w EXCEPT !.dom[m].buttons[k].text =
                         IF rev = "A" THEN t.orig ELSE w.settings.buttonText,
                     !.dom[m].buttons[k].error = FALSE]

----------------------------------------------------------------------------
\* saveSettings: calls the host's saveSettingsDebounced; TRUE when the call
\* throws (the context exposes no such function).
saveSettingsThrows == ~ctx.saveSettingsDebounced

\* $('.video-link-button').remove(): the buttons leave the document, their
\* containers stay; the closures that hold a removed button keep it, and
\* the timers among them write to it only.
removeAllButtons(w) ==
    [w EXCEPT !.dom = [m \in Msgs |-> [w.dom[m] EXCEPT !.buttons = <<>>]],
              !.inflight = [i \in DOMAIN w.inflight |-> Pending(w.inflight[i].msg, 0, "")]]

\* $('.video-link-button').text(text)
relabelAllButtons(w, text) ==
    [w EXCEPT !.dom = [m \in Msgs |->
        [w.dom[m] EXCEPT !.buttons =
            [k \in DOMAIN w.dom[m].buttons |-> [w.dom[m].buttons[k] EXCEPT !.text = text]]]]]

\* the change handler of #vl_enabled
onEnabledChange(w, checked) ==
    LET w1 == [w EXCEPT !.settings.enabled = checked]
    IN IF saveSettingsThrows THEN [w1 EXCEPT !.threw = TRUE]
       ELSE IF w1.settings.enabled THEN addButtonsToAllMessages(w1)
       ELSE removeAllButtons(w1)

\* the input handler of #vl_button_text
onButtonTextInput(w, text) ==
    LET w1 == [w EXCEPT !.settings.buttonText = text]
    IN IF saveSettingsThrows THEN [w1 EXCEPT !.threw = TRUE] ELSE relabelAllButtons(w1, text)

\* handleMessageRendered
handleMessageRendered(w) ==
    IF ~w.settings.enabled THEN w
    ELSE [w EXCEPT !.scans = Append(@, Scan("rendered", DelayRendered))]

\* the CHAT_CHANGED listener
onChatChanged(w) ==
    [w EXCEPT !.scans =
        Append(@, Scan("rescan", IF rev = "A" THEN DelayChatChangedA ELSE DelayChatChangedB))]

\* the APP_READY listener
onAppReady(w) ==
    [w EXCEPT !.scans =
        Append(@, Scan("rescan", IF rev = "A" THEN DelayAppReadyA ELSE DelayAppReadyB))]

----------------------------------------------------------------------------
\* What the last step called (the host's save-chat functions) and, when it
\* resumed a click, the response and the message and button of that click.
NoResponse == [kind |-> "none", body |-> Undef]
Called(w) ==
    [saves |-> w.saves, resp |-> w.resp, msg |-> w.msg, slot |-> w.slot, threw |-> w.threw]

\* The bounds, kept by every step: a suspended click has room for the timer
\* it will set, and a node that lost its button has room for a new container.
ButtonTimers(w) ==
    {<<m, k, i>> \in Msgs \X (1 .. MaxContainers) \X (1 .. MaxTimers) :
        k \in DOMAIN w.dom[m].buttons /\ i \in DOMAIN w.dom[m].buttons[k].timers}

WithinBounds(w) ==
    /\ Len(w.inflight) <= MaxInflight
    /\ Cardinality(ButtonTimers(w)) + Len(w.inflight) <= MaxTimers
    /\ Len(w.scans) <= MaxScans
    /\ w.requests <= MaxRequests
    /\ \A m \in Msgs : w.dom[m].containers <= MaxContainers
    /\ \A m \in Msgs : w.dom[m].exists /\ w.dom[m].buttons = <<>>
                          => w.dom[m].containers < MaxContainers

Commit(w) ==
    /\ WithinBounds(w)
    /\ settings' = w.settings
    /\ chat' = w.chat
    /\ dom' = w.dom
    /\ inflight' = w.inflight
    /\ scans' = w.scans
    /\ requests' = w.requests
    /\ last' = Called(w)
    /\ UNCHANGED <<rev, ctx, host>>

\* A button the user can click: in the document, enabled, displayed.
Clickable(m, k) == ~dom[m].buttons[k].disabled /\ ~dom[m].buttons[k].hidden

----------------------------------------------------------------------------
Init ==
    /\ rev \in {"A", "B"}
    /\ ctx \in [saveSettingsDebounced : BOOLEAN, saveChat : {TRUE}, saveChatConditional : {TRUE},
                 saveRejects : {FALSE}]
    /\ settings = [enabled |-> TRUE, buttonText |-> DefaultButtonText]
    /\ chat \in [Msgs -> {[extra |-> FALSE, video_link |-> Absent]}
                         \cup {[extra |-> TRUE, video_link |-> u] : u \in PersistedUrls}]
    /\ rev = "B" => \A m \in Msgs : ~chat[m].extra
    /\ dom \in [Msgs -> {NoNode} \cup UNION {{Node(m, t) : t \in MsgTexts} : m \in Msgs}]
    /\ \A m \in Msgs : dom[m].exists => dom[m].mesid = MesId(m)
    /\ inflight = <<>>
    /\ scans = <<>>
    /\ requests = 0
    /\ last = [saves |-> <<>>, resp |-> NoResponse, msg |-> -1, slot |-> 0, threw |-> FALSE]
    /\ host = [entry |-> SameEntry]

\* The user clicks button k of message m.
Click(m, k) ==
    /\ Clickable(m, k)
    /\ Commit(handleButtonClick(World, m, k).w)

\* The fetch of the i-th suspended click ends with resp; the handler resumes.
Settle(i, resp) ==
    Commit(resume([World EXCEPT !.inflight = RemoveAt(@, i)], inflight[i], resp))

\* The i-th pending timer of button k of message m expires.
FireTimer(m, k, i) ==
    LET q == dom[m].buttons[k].timers
    IN /\ CanFire(q, i)
       /\ Commit(timerCallback([World EXCEPT !.dom[m].buttons[k].timers = RemoveAt(@, i)],
                               m, k, q[i]))

\* The i-th pending callback of a host event listener runs.
FireScan(i) ==
    /\ CanFire(scans, i)
    /\ Commit(scanCallback([World EXCEPT !.scans = RemoveAt(@, i)], scans[i].kind))

\* The host emits CHARACTER_MESSAGE_RENDERED or USER_MESSAGE_RENDERED.
MessageRendered == Commit(handleMessageRendered(World))

\* The host emits CHAT_CHANGED.
ChatChanged == Commit(onChatChanged(World))

\* The host emits APP_READY.
AppReady == Commit(onAppReady(World))

\* The user toggles the Enable Extension checkbox.
EnabledChange == Commit(onEnabledChange(World, ~settings.enabled))

\* The user edits the Button Text field.
ButtonTextInput(text) == Commit(onButtonTextInput(World, text))

Next ==
    \/ \E m \in Msgs : \E k \in DOMAIN dom[m].buttons : Click(m, k)
    \/ \E i \in DOMAIN inflight : \E resp \in Responses : Settle(i, resp)
    \/ \E m \in Msgs : \E k \in DOMAIN dom[m].buttons :
          \E i \in DOMAIN dom[m].buttons[k].timers : FireTimer(m, k, i)
    \/ \E i \in DOMAIN scans : FireScan(i)
    \/ MessageRendered
    \/ ChatChanged
    \/ AppReady
    \/ EnabledChange
    \/ \E text \in NextEdit(settings.buttonText) : ButtonTextInput(text)

Spec == Init /\ [][Next]_vars

----------------------------------------------------------------------------
\* The link and persistence functions called on their own: SpecCalls starts
\* from any message list and any node the functions can be handed (with or
\* without text container, link container, usable mesid) and calls
\* addLinkToMessage (which calls saveVideoLinkToMessage) and
\* loadSavedVideoLinks in any order, the host re-rendering messages in between.
MaxLinks == 2      \* link containers in one message

\* URLs handed to addLinkToMessage and saveVideoLinkToMessage.
CallUrls == {"", "https://n"}

\* The href of a link container a node holds from the start.
OldLink == "https://old"

\* mesid attributes of the node at position m of the message list.
MesIds(m) == {NoMesId, NaNMesId, MesId(-1), MesId(m), MesId(NMsg)}

\* Nodes at position m.  At position 0: none, one without text container,
\* or one with a text container with or without a link container, with any
\* mesid; at the other positions: none or a node as the host renders it.
CallNodes(m) ==
    IF m = 0
    THEN {NoNode} \cup
         {[Node(m, <<"hi">>) EXCEPT !.hasText = h, !.mesid = id, !.links = l] :
             h \in BOOLEAN, id \in MesIds(m), l \in {<<>>, <<OldLink>>}}
    ELSE {NoNode, Node(m, <<"hi">>)}

\* addLinkToMessage of the loaded revision (revision B has no third parameter)
addLinkToMessage(w, m, url, saveToChat) ==
    IF rev = "A" THEN addLinkToMessageA(w, m, url, saveToChat)
    ELSE addLinkToMessageB(w, m, url)

\* The host renders message m anew: the node is replaced by a fresh one with
\* the message's text and its index as mesid, without buttons and links.
rerender(w, m) == [w EXCEPT !.dom[m] = Node(m, w.dom[m].text)]

\* What a step of SpecCalls called: the function and its arguments, the
\* calls of the host's save-chat functions it made, whether an exception
\* left it, and the loadedCount of loadSavedVideoLinks.
NoCall ==
    [call |-> "none", msg |-> -1, url |-> "", saveToChat |-> FALSE,
     saves |-> <<>>, threw |-> FALSE, loaded |-> 0]

Returns(w, call, m, url, saveToChat) ==
    /\ \A n \in Msgs : Len(w.dom[n].links) <= MaxLinks
    /\ settings' = w.settings
    /\ chat' = w.chat
    /\ dom' = w.dom
    /\ last' = [call |-> call, msg |-> m, url |-> url, saveToChat |-> saveToChat,
                saves |-> w.saves, threw |-> w.threw, loaded |-> w.loaded]
    /\ UNCHANGED <<rev, ctx, inflight, scans, requests, host>>

InitCalls ==
    /\ rev \in {"A", "B"}
    /\ ctx \in [saveSettingsDebounced : {TRUE}, saveChat : BOOLEAN,
                saveChatConditional : BOOLEAN, saveRejects : BOOLEAN]
    /\ ctx.saveRejects => ctx.saveChat \/ ctx.saveChatConditional
    /\ rev = "B" => ctx.saveChat /\ ctx.saveChatConditional /\ ~ctx.saveRejects
    /\ settings = [enabled |-> TRUE, buttonText |-> DefaultButtonText]
    /\ chat \in [Msgs -> {[extra |-> FALSE, video_link |-> Absent]}
                         \cup {[extra |-> TRUE, video_link |-> u] : u \in PersistedUrls}]
    /\ rev = "B" => \A m \in Msgs : ~chat[m].extra
    /\ dom \in [Msgs -> UNION {CallNodes(m) : m \in Msgs}]
    /\ \A m \in Msgs : dom[m] \in CallNodes(m)
    /\ \A m \in Msgs : ~dom[m].hasText => dom[m].links = <<>>
    /\ inflight = <<>>
    /\ scans = <<>>
    /\ requests = 0
    /\ last = NoCall
    /\ host = [entry |-> SameEntry]

\* Some caller calls addLinkToMessage(node m, url, saveToChat).
CallAddLink(m, url, saveToChat) ==
    /\ dom[m].exists
    /\ rev = "B" => saveToChat
    /\ Returns(addLinkToMessage(World, m, url, saveToChat), "addLinkToMessage",
               m, url, saveToChat)

\* Some caller calls loadSavedVideoLinks() (revision A).
CallLoadSaved ==
    /\ rev = "A"
    /\ Returns(loadSavedVideoLinks(World), "loadSavedVideoLinks", -1, "", FALSE)

\* The host renders message m anew.
Rerender(m) ==
    /\ dom[m].exists
    /\ Returns(rerender(World, m), "rerender", m, "", FALSE)

NextCalls ==
    \/ \E m \in Msgs : \E url \in CallUrls : \E saveToChat \in BOOLEAN :
          CallAddLink(m, url, saveToChat)
    \/ CallLoadSaved
    \/ \E m \in Msgs : Rerender(m)

SpecCalls == InitCalls /\ [][NextCalls]_vars

----------------------------------------------------------------------------
\* loadSettings on its own: SpecSettings starts from any entry an earlier
\* session can have left in the host's bag, calls loadSettings, and lets
\* the handlers of the settings panel write to the settings object.
\* The variable settings holds the whole object the module refers to.
InitSettings ==
    /\ rev \in {"A", "B"}
    /\ ctx = [saveSettingsDebounced |-> TRUE, saveChat |-> TRUE,
              saveChatConditional |-> TRUE, saveRejects |-> FALSE]
    /\ settings = EmptyObject
    /\ \E has \in SUBSET SettingsKeys : \E custom \in SUBSET has :
          \E kind \in {"none", "null", "object"} :
              /\ kind # "object" => has = {}
              /\ host = [entry |->
                            [kind |-> kind,
                             obj |-> SettingsObject(has,
                                        [k \in SettingsKeys |->
                                            IF k \in custom THEN customSettings[k]
                                            ELSE defaultSettings[k]])]]
    /\ chat = [m \in Msgs |-> [extra |-> FALSE, video_link |-> Absent]]
    /\ dom = [m \in Msgs |-> NoNode]
    /\ inflight = <<>>
    /\ scans = <<>>
    /\ requests = 0
    /\ last = [call |-> "none", had |-> {}, key |-> ""]

\* init() calls loadSettings().
LoadSettings ==
    LET r == loadSettings(host, settings)
    IN /\ host' = r.host
       /\ settings' = r.settings
       /\ last' = [call |-> "loadSettings",
                   had |-> IF host.entry.kind \in {"none", "null"} THEN {}
                           ELSE EntryObject(host, settings).has,
                   key |-> ""]
       /\ UNCHANGED <<rev, ctx, chat, dom, inflight, scans, requests>>

\* A handler of the settings panel (registered after loadSettings) writes
\* settings[key] = value.
WriteSetting(key, value) ==
    /\ last.call # "none"
    /\ settings' = SettingsObject(settings.has \cup {key}, [settings.val EXCEPT ![key] = value])
    /\ last' = [call |-> "write", had |-> {}, key |-> key]
    /\ UNCHANGED <<rev, ctx, chat, dom, inflight, scans, requests, host>>

NextSettings ==
    \/ LoadSettings
    \/ \E key \in SettingsKeys : \E value \in {defaultSettings[key], customSettings[key]} :
          WriteSetting(key, value)

SpecSettings == InitSettings /\ [][NextSettings]_vars

----------------------------------------------------------------------------
\* Properties.

\* The suspended clicks that hold button k of message m.
FetchesOf(m, k) == {i \in DOMAIN inflight : inflight[i].msg = m /\ inflight[i].slot = k}

\* Nothing is pending for button k of message m: no fetch, no timer.
Quiescent(m, k) == FetchesOf(m, k) = {} /\ dom[m].buttons[k].timers = <<>>

\* The step is the run of a pending callback of a host event listener.
IsScanStep == Len(scans') < Len(scans)

\* The href the click handler is to give the link for a response: the
\* player address of the file name (revision A), the resolved URL (revision B).
ResolvedHref(resp) ==
    LET r == fetchLinkFromAPI(rev, resp)
    IN IF rev = "A"
       THEN IF ToStr(r.value) = "f1" THEN "/v1/player?id=f1" ELSE "/v1/player?id=undefined"
       ELSE ToStr(r.value)

\* C1: for a message that has no link container, the only click so far,
\* answered with a 2xx JSON response, leaves the message with exactly one
\* link, whose href is the URL resolved from the response.
C1_OneClickOneLink ==
    [][(/\ last'.resp.kind = "json"
        /\ requests' = 1
        /\ ~chat[last'.msg].extra)
       => dom'[last'.msg].links = <<ResolvedHref(last'.resp)>>]_vars

\* C2: in every reachable state every message node holds at most one link
\* container and at most one button.
C2_AtMostOneLinkAndButton ==
    \A m \in Msgs : Len(dom[m].links) <= 1 /\ Len(dom[m].buttons) <= 1

\* C3: for every button of the document at most one fetch started by a
\* click on it is unsettled, and the button is disabled as long as one is.
C3_OneFetchPerButton ==
    \A m \in Msgs : \A k \in DOMAIN dom[m].buttons :
        /\ Cardinality(FetchesOf(m, k)) <= 1
        /\ FetchesOf(m, k) # {} => dom[m].buttons[k].disabled

\* C3, reached: a button that already had a click settled is clicked again
\* and waits, disabled, for the fetch while a timer of the earlier click is
\* still pending.
C3_Witness ==
    \E m \in Msgs : \E k \in DOMAIN dom[m].buttons :
        /\ FetchesOf(m, k) # {}
        /\ dom[m].buttons[k].disabled
        /\ dom[m].buttons[k].outcome = "rejected"
        /\ dom[m].buttons[k].timers # <<>>

\* C4: when a click is answered with a non-2xx status, the button (if it is
\* still in the document) shows the error glyph, is enabled at once, with
\* the reset of the label pending after 2000 ms, and the step adds no link
\* to any message; the step that sent the request added none either.
C4_Non2xxShowsError ==
    [][/\ last'.resp = HttpError =>
            /\ \A m \in Msgs : dom'[m].links = dom[m].links
            /\ last'.slot # 0 =>
                 LET b == dom'[last'.msg].buttons[last'.slot]
                 IN /\ b.text = Cross
                    /\ b.error
                    /\ ~b.disabled
                    /\ b.timers # <<>>
                    /\ b.timers[Len(b.timers)].kind = "resetError"
                    /\ b.timers[Len(b.timers)].delay <= 2000
       /\ requests' > requests =>
            \A m \in Msgs : Len(dom'[m].links) <= Len(dom[m].links)]_vars

\* C4, reached: a click on a message without a link has just been answered
\* with a non-2xx status and its button shows the error glyph, enabled.
C4_Witness ==
    /\ last.resp = HttpError
    /\ last.slot # 0
    /\ dom[last.msg].buttons[last.slot].text = Cross
    /\ ~dom[last.msg].buttons[last.slot].disabled
    /\ dom[last.msg].links = <<>>

\* The value C5 names for a decoded body: its url property if present, else
\* its link property if present, else the body itself.
UrlElseLinkElseBody(body) ==
    IF body.t = "obj" /\ body.url # Absent THEN Str(body.url)
    ELSE IF body.t = "obj" /\ body.link # Absent THEN Str(body.link)
    ELSE body

\* C5: for every 2xx JSON response fetchLinkFromAPI returns the body's url,
\* else its link, else the decoded body.
C5_UrlElseLinkElseBody ==
    last.resp.kind = "json" =>
        fetchLinkFromAPI(rev, last.resp) = Returned(UrlElseLinkElseBody(last.resp.body))

\* C6: switching the extension off removes every button from every message;
\* switching it on gives each message node without a button exactly one and
\* leaves the buttons of the other nodes as they are.
C6_ToggleRemovesAndAdds ==
    [][settings'.enabled # settings.enabled =>
         IF settings'.enabled
         THEN \A m \in Msgs : dom[m].exists =>
                 /\ Len(dom'[m].buttons) = 1
                 /\ dom[m].buttons # <<>> => dom'[m].buttons = dom[m].buttons
         ELSE \A m \in Msgs : dom'[m].buttons = <<>>]_vars

\* C7: the document a scan callback leaves is one the same callback, run
\* again at once, does not change: no further button, no further link.
C7_ScanIdempotent ==
    [][IsScanStep =>
         \A i \in DOMAIN scans :
             scans' = RemoveAt(scans, i) =>
                 scanCallback(World', scans[i].kind).dom = dom']_vars

\* C7, reached: a scan has restored the link and added the button of a
\* message, and another scan is pending.
C7_Witness ==
    /\ scans # <<>>
    /\ requests = 0
    /\ \E m \in Msgs :
          /\ chat[m].extra
          /\ Len(dom[m].links) = 1
          /\ Len(dom[m].buttons) = 1

\* The message at index m carries a persisted link.
HasSavedLink(m) == chat[m].extra /\ chat[m].video_link \notin {Absent, ""}

C9_RejectedReturnsToIdle ==
    \A m \in Msgs : \A k \in DOMAIN dom[m].buttons :
        (dom[m].buttons[k].outcome = "rejected" /\ Quiescent(m, k)) =>
            /\ ~dom[m].buttons[k].disabled
            /\ ~dom[m].buttons[k].error
            /\ dom[m].buttons[k].text \notin {Cross, Busy}

\* C10: a button whose fetch has just resolved shows the check mark, and a
\* button whose last fetch resolved is hidden once nothing is pending for it.
C10_SuccessThenHidden ==
    /\ (last.resp.kind = "json" /\ last.slot # 0) =>
           /\ dom[last.msg].buttons[last.slot].text = Check
           /\ dom[last.msg].buttons[last.slot].success
    /\ \A m \in Msgs : \A k \in DOMAIN dom[m].buttons :
           (dom[m].buttons[k].outcome = "resolved" /\ Quiescent(m, k)) =>
               dom[m].buttons[k].hidden

\* The text the click handler of the loaded revision extracts from a node.
ExtractedText(node) == IF rev = "A" THEN messageTextA(node) ELSE messageTextB(node)

\* C11: a click on a message whose extracted text is empty after trimming
\* sends no request and changes nothing: the button stays enabled with its
\* label, and no link is added.
C11_EmptyTextAborts ==
    \A m \in Msgs : \A k \in DOMAIN dom[m].buttons :
        (Clickable(m, k) /\ ExtractedText(dom[m]) = <<>>) =>
            LET r == handleButtonClick(World, m, k)
            IN ~r.sent /\ r.w = World

\* C17: when the host exposes no saveSettingsDebounced, a change of a
\* setting ends without an exception and the handler completes: the
\* enabled checkbox removes or adds the buttons, the text field relabels them.
C17_SaveSettingsFailsSilently ==
    [][(~ctx.saveSettingsDebounced /\ settings' # settings) =>
         /\ ~last'.threw
         /\ settings'.enabled # settings.enabled =>
               IF settings'.enabled
               THEN \A m \in Msgs : dom[m].exists => dom'[m].buttons # <<>>
               ELSE \A m \in Msgs : dom'[m].buttons = <<>>
         /\ settings'.buttonText # settings.buttonText =>
               \A m \in Msgs : \A k \in DOMAIN dom'[m].buttons :
                   dom'[m].buttons[k].text = settings'.buttonText]_vars

\* C18: a resumed click never ends with an uncaught exception, a failed
\* fetch shows the error glyph on the button, and the glyph is transient:
\* once nothing is pending for the button its label is not the error glyph.
C18_ClickFailuresCaught ==
    /\ last.resp.kind # "none" => ~last.threw
    /\ (last.resp.kind \in {"network", "status", "badjson"} /\ last.slot # 0) =>
           dom[last.msg].buttons[last.slot].text = Cross
    /\ \A m \in Msgs : \A k \in DOMAIN dom[m].buttons :
           (dom[m].buttons[k].outcome = "rejected" /\ Quiescent(m, k)) =>
               dom[m].buttons[k].text # Cross

\* C19: while the extension is disabled (the checkbox handler has run to
\* its end) no message carries a button.
C19_NoButtonsWhileDisabled ==
    (ctx.saveSettingsDebounced /\ ~settings.enabled) =>
        \A m \in Msgs : dom[m].buttons = <<>>

\* C20: a button whose fetch is in flight is disabled and shows the busy
\* glyph.
C20_LoadingShowsBusy ==
    \A m \in Msgs : \A k \in DOMAIN dom[m].buttons :
        FetchesOf(m, k) # {} =>
            dom[m].buttons[k].disabled /\ dom[m].buttons[k].text = Busy

\* The mesid of the node is an index into the host's chat list.
ValidMesId(node) == node.mesid.kind = "int" /\ node.mesid.n \in Msgs

\* addLinkToMessage(node m, url, true), then the host renders the message
\* anew, then loadSavedVideoLinks.
RoundTrip(m, url) ==
    loadSavedVideoLinks(rerender(addLinkToMessageA(World, m, url, TRUE), m))

\* C12 as stated: after addLinkToMessage(node, url, true) on any node whose
\* mesid is a valid index, a re-rendering and loadSavedVideoLinks, the
\* message shows exactly one link, with href url.
C12_RoundTrip ==
    rev = "A" =>
        \A m \in Msgs : \A url \in CallUrls :
            (dom[m].exists /\ ValidMesId(dom[m])) =>
                RoundTrip(m, url).dom[m].links = <<url>>

\* C12, amended: the same for a node that has a text container and no link
\* container, and a url that is not the empty string.
C12_RoundTripOfNewLink ==
    rev = "A" =>
        \A m \in Msgs : \A url \in CallUrls \ {""} :
            (/\ dom[m].exists
             /\ ValidMesId(dom[m])
             /\ dom[m].hasText
             /\ dom[m].links = <<>>) =>
                RoundTrip(m, url).dom[m].links = <<url>>

\* C12, reached: loadSavedVideoLinks has just restored one link, the link
\* of the only message with a persisted link, and the URL is one that only
\* addLinkToMessage with saveToChat can have written to the chat list.
C12_Witness ==
    /\ last.call = "loadSavedVideoLinks"
    /\ last.loaded = 1
    /\ \E m \in Msgs :
          /\ chat[m].extra
          /\ chat[m].video_link = "https://n"
          /\ dom[m].links = <<"https://n">>
          /\ \A n \in Msgs \ {m} : ~chat[n].extra

\* C13: addLinkToMessage with saveToChat on a node whose mesid is absent,
\* not a number, negative or not below the length of the chat list changes
\* no chat message and calls no save-chat function.
C13_InvalidIndexNotSaved ==
    [][(/\ rev = "A"
        /\ last'.call = "addLinkToMessage"
        /\ last'.saveToChat
        /\ ~ValidMesId(dom[last'.msg]))
       => (chat' = chat /\ last'.saves = <<>>)]_vars

\* C13, reached: the link was appended, so saveVideoLinkToMessage was
\* called, for a node whose mesid is not below the length of the chat
\* list, on a host that has a save function; nothing was saved.
C13_Witness ==
    /\ rev = "A"
    /\ last.call = "addLinkToMessage"
    /\ last.saveToChat
    /\ dom[last.msg].links = <<last.url>>
    /\ dom[last.msg].mesid = MesId(NMsg)
    /\ ctx.saveChat
    /\ last.saves = <<>>

\* C14: addLinkToMessage with saveToChat on a node with a text container
\* and no link container appends the link whatever becomes of the
\* persistence, and no exception leaves the call.
C14_LinkShownWithoutPersistence ==
    [][(/\ rev = "A"
        /\ last'.call = "addLinkToMessage"
        /\ last'.saveToChat
        /\ dom[last'.msg].hasText
        /\ dom[last'.msg].links = <<>>)
       => (dom'[last'.msg].links = <<last'.url>> /\ ~last'.threw)]_vars

\* C14, reached: the link is shown although no save function exists.
C14_Witness ==
    /\ rev = "A"
    /\ last.call = "addLinkToMessage"
    /\ last.saveToChat
    /\ dom[last.msg].links = <<last.url>>
    /\ ValidMesId(dom[last.msg])
    /\ ~ctx.saveChat /\ ~ctx.saveChatConditional
    /\ chat[dom[last.msg].mesid.n].video_link = last.url

\* C15: addLinkToMessage on a node that holds a link container is a no-op
\* in every revision: no element added, the href unchanged, no chat
\* message written, no save-chat function called.
C15_AddLinkIdempotent ==
    \A m \in Msgs : \A url \in CallUrls : \A saveToChat \in BOOLEAN :
        (dom[m].exists /\ dom[m].links # <<>>) =>
            addLinkToMessage(World, m, url, saveToChat) = World

\* C16: loadSettings leaves an entry that has every default key, with the
\* value the entry had before for the keys it had and the default for the
\* others (for all of them when there was no entry); afterwards settings is
\* the host's entry itself, so what a handler writes to settings is what
\* the host finds at its entry; and a second loadSettings changes nothing.
C16_LoadSettings ==
    [][/\ last'.call = "loadSettings" =>
            /\ host'.entry.kind = "same"
            /\ settings'.has = SettingsKeys
            /\ \A k \in SettingsKeys :
                  settings'.val[k] = IF k \in last'.had
                                     THEN EntryObject(host, settings).val[k]
                                     ELSE defaultSettings[k]
            /\ loadSettings(host', settings') = [host |-> host', settings |-> settings']
       /\ last'.call = "write" =>
            EntryObject(host', settings').val[last'.key] = settings'.val[last'.key]]_vars

\* C16, reached: loadSettings has just run on an entry that had only a
\* custom button text (kept) and lacked the other keys (back-filled).
C16_Witness ==
    /\ last.call = "loadSettings"
    /\ last.had = {"buttonText"}
    /\ host.entry.kind = "same"
    /\ settings.has = SettingsKeys
    /\ settings.val["buttonText"] = customSettings["buttonText"]
    /\ settings.val["enabled"] = defaultSettings["enabled"]

\* The suspended clicks on message m, whatever button they hold.
FetchesOfMessage(m) == {i \in DOMAIN inflight : inflight[i].msg = m}

\* C21: at most one fetch per message is in flight at any time, also when
\* the message's button was removed and created anew in between.
C21_OneFetchPerMessage ==
    \A m \in Msgs : Cardinality(FetchesOfMessage(m)) <= 1

\* The heap after a click on button k of message m whose fetch ends with
\* resp before anything else happens.
ClickThenSettle(m, k, resp) ==
    LET w1 == handleButtonClick(World, m, k).w
        n == Len(w1.inflight)
    IN resume([w1 EXCEPT !.inflight = RemoveAt(@, n)], w1.inflight[n], resp)

\* C22: a click whose fetch fails leaves the links of the message as they
\* were before the click: a link that was displayed is still displayed,
\* with the same href.
C22_FailedClickKeepsLink ==
    \A m \in Msgs : \A k \in DOMAIN dom[m].buttons :
        \A resp \in {NetworkError, HttpError} :
            (Clickable(m, k) /\ handleButtonClick(World, m, k).sent) =>
                ClickThenSettle(m, k, resp).dom[m].links = dom[m].links

\* C23: the message of every request is the host's own text of the
\* message, trimmed, without the text of any link the extension inserted.
C23_RequestHasOwnTextOnly ==
    \A m \in Msgs : \A k \in DOMAIN dom[m].buttons :
        (Clickable(m, k) /\ handleButtonClick(World, m, k).sent) =>
            handleButtonClick(World, m, k).message = Trim(dom[m].text)

\* C24: once the button text has been changed and no click, timer or scan
\* is pending, every displayed, enabled button shows settings.buttonText
\* (on a host whose saveSettingsDebounced lets the handler relabel).
C24_LabelsFollowSetting ==
    (/\ ctx.saveSettingsDebounced
     /\ settings.buttonText # DefaultButtonText
     /\ inflight = <<>>
     /\ scans = <<>>
     /\ \A m \in Msgs : \A k \in DOMAIN dom[m].buttons : dom[m].buttons[k].timers = <<>>)
    => \A m \in Msgs : \A k \in DOMAIN dom[m].buttons :
           Clickable(m, k) => dom[m].buttons[k].text = settings.buttonText

\* C25: addLinkToMessage with saveToChat that reaches the persistence with
\* a valid index writes the URL to that message's extra.video_link and
\* calls exactly one save function: saveChat if the host has it, otherwise
\* saveChatConditional if the host has it, otherwise none.
C25_SavesOnce ==
    [][(/\ rev = "A"
        /\ last'.call = "addLinkToMessage"
        /\ last'.saveToChat
        /\ dom[last'.msg].hasText
        /\ dom[last'.msg].links = <<>>
        /\ ValidMesId(dom[last'.msg]))
       => /\ chat'[dom[last'.msg].mesid.n] = [extra |-> TRUE, video_link |-> last'.url]
          /\ \A n \in Msgs \ {dom[last'.msg].mesid.n} : chat'[n] = chat[n]
          /\ last'.saves = IF ctx.saveChat THEN <<"saveChat">>
                           ELSE IF ctx.saveChatConditional THEN <<"saveChatConditional">>
                           ELSE <<>>]_vars

\* C25, reached: on a host that has both save functions the link of a
\* message without an extra bag was persisted, with one call of saveChat.
C25_Witness ==
    /\ rev = "A"
    /\ last.call = "addLinkToMessage"
    /\ last.saveToChat
    /\ last.url = "https://n"
    /\ ctx.saveChat /\ ctx.saveChatConditional
    /\ last.saves = <<"saveChat">>
    /\ ValidMesId(dom[last.msg])
    /\ chat[dom[last.msg].mesid.n] = [extra |-> TRUE, video_link |-> "https://n"]

\* C26: every message node holds at most one button container, and every
\* button container holds a button.
C26_NoEmptyContainers ==
    \A m \in Msgs : dom[m].containers <= 1 /\ dom[m].containers = Len(dom[m].buttons)

====
